---- MODULE Spec2Model ----
(***************************************************************************)
(* RobustFill (src/RobustFill.py): the vocabulary codec, the encoder and   *)
(* decoder loops of _run, the batch operations score / sample /            *)
(* sampleAndScore, and the vocabulary transfer with_target_vocabulary.     *)
(*                                                                         *)
(* Token ids are 0-based as in the source; the EOS id of a vocabulary of   *)
(* v tokens is v.  A tensor of shape rows x batch is a sequence of rows,   *)
(* each row a sequence of batch entries; tensor[k+1][b+1] is the source's  *)
(* tensor[k, b].                                                           *)
(***************************************************************************)
EXTENDS Integers, Sequences, FiniteSets

VARIABLES
    \* ---- codec round trip (_targetToTensor / _tensorToOutput)
    cpc, cnet, targets, tensor, out,
    \* ---- networks, their parameter tensors and optimisers
    nets, tens, ops, last,
    \* ---- a call of score / sample / sampleAndScore and its _run
    pc, rnet, call, batch_inputs, batch_target, nRepeats, err,
    inputs, target, mode,
    ei, ej, ek, active, masks, embedding_idxs, attention_mask,
    dk, dactive, score, logp, rep, result

codecVars == <<cpc, cnet, targets, tensor, out>>
xferVars == <<nets, tens, ops, last>>
callVars == <<rnet, call, batch_inputs, batch_target, nRepeats>>
encVars == <<ei, ej, ek, active, masks, embedding_idxs, attention_mask>>
decVars == <<dk, dactive, score, logp>>
runVars == <<pc, rnet, call, batch_inputs, batch_target, nRepeats, err,
             inputs, target, mode,
             ei, ej, ek, active, masks, embedding_idxs, attention_mask,
             dk, dactive, score, logp, rep, result>>
vars == <<cpc, cnet, targets, tensor, out, nets, tens, ops, last,
          pc, rnet, call, batch_inputs, batch_target, nRepeats, err,
          inputs, target, mode,
          ei, ej, ek, active, masks, embedding_idxs, attention_mask,
          dk, dactive, score, logp, rep, result>>

\* ------------------------------------------------------------------ bounds
\* Longest raw token sequence drawn as an input.
MaxLen == 2
\* Largest number of sequences (instances) in a batch.
MaxBatch == 2
\* Largest number of RobustFill objects alive at once.
MaxNets == 2
\* Largest number of calls made on the networks in one behaviour.
MaxOps == 4

\* ----------------------------------------------------------------- helpers
Range(s) == {s[x] : x \in DOMAIN s}

Max(S) == CHOOSE x \in S : \A y \in S : y <= x

Min(S) == CHOOSE x \in S : \A y \in S : x <= y

\* Sequences over S of length 0..n.
SeqsUpTo(S, n) == UNION {[1..m -> S] : m \in 0..n}

\* Non-empty sequences over S of length 1..n.
Seqs1UpTo(S, n) == UNION {[1..m -> S] : m \in 1..n}

\* Ordered, duplicate-free sequences over S.
Vocabularies(S) == {v \in SeqsUpTo(S, Cardinality(S)) :
                       \A x, y \in DOMAIN v : x # y => v[x] # v[y]}

\* The tokens the target vocabularies are drawn from.
TargetTokens == {"a", "b"}

\* ------------------------------------------------------- the vocabulary codec
\* The dict comprehension {vocab[j]: j for j in range(len(vocab))}: a later
\* occurrence of a token overwrites an earlier one.
VocabularyIndex(vocab) ==
    [tok \in Range(vocab) |-> Max({j \in DOMAIN vocab : vocab[j] = tok}) - 1]

\* The codec-relevant fields of a network constructed over target_vocabulary.
NewCodecNet(target_vocabulary) ==
    [target_vocabulary       |-> target_vocabulary,
     target_vocabulary_index |-> VocabularyIndex(target_vocabulary),
     v_target                |-> Len(target_vocabulary)]

\* The value every cell of a fresh target tensor holds before the sequences
\* are written into it: ones(maxlen+1, B) * v_target.
TargetPadBug(net) == IF net.v_target > 0 THEN net.v_target - 1 ELSE 0

TargetPad(net) == net.v_target

\* _targetToTensor: (maxlen+1) rows, one column per sequence, the ids of the
\* sequence on top and the pad value below.  max() of no sequence raises.
_targetToTensor(net, tgts) ==
    IF Len(tgts) = 0 THEN [err |-> "ValueError", val |-> <<>>]
    ELSE IF \E i \in DOMAIN tgts : \E x \in Range(tgts[i]) :
               x \notin DOMAIN net.target_vocabulary_index
         THEN [err |-> "KeyError", val |-> <<>>]
    ELSE LET maxlen == Max({Len(tgts[i]) : i \in DOMAIN tgts})
         IN  [err |-> "none",
              val |-> [k \in 1..(maxlen + 1) |->
                        [i \in 1..Len(tgts) |->
                          IF k <= Len(tgts[i])
                          THEN net.target_vocabulary_index[tgts[i][k]]
                          ELSE TargetPad(net)]]]

\* Column i (1-based) of a tensor, top to bottom.
Column(t, i) == [k \in 1..Len(t) |-> t[k][i]]

\* The number of columns of a tensor with at least one row.
NCols(t) == Len(t[1])

\* list.index(x): the 0-based position of the first x.
ListIndex(l, x) == Min({k \in DOMAIN l : l[k] = x}) - 1

\* One column of _tensorToOutput: [] when the column starts with the EOS
\* id, the tokens before the first EOS id when there is one, the whole
\* column otherwise.
DecodeColumn(net, l) ==
    IF l[1] = net.v_target THEN <<>>
    ELSE IF net.v_target \in Range(l)
         THEN LET final == ListIndex(l, net.v_target)
              IN  [k \in 1..final |-> net.target_vocabulary[l[k] + 1]]
         ELSE [k \in 1..Len(l) |-> net.target_vocabulary[l[k] + 1]]

\* _tensorToOutput: the decoded columns, in column order.
_tensorToOutput(net, t) ==
    [i \in 1..NCols(t) |-> DecodeColumn(net, Column(t, i))]

\* The batches of target sequences drawn for a network (the empty batch
\* included).
TargetBatches(net) ==
    SeqsUpTo(SeqsUpTo(Range(net.target_vocabulary), MaxLen), MaxBatch)

\* ------------------------------------- networks, parameters and optimisers
\* The slots a RobustFill object (and its parameter tensors) can live in.
NetIds == 1..MaxNets

\* An absent 'opt' / 'optstate' attribute.
NoOpt == [present |-> FALSE, over |-> <<>>, t |-> 0]

\* An optimiser (or a saved optimiser state) whose per-parameter moment
\* buffers are shaped for the parameters of the vocabulary `over`, after t
\* steps.
OptOver(vocab, t) == [present |-> TRUE, over |-> vocab, t |-> t]

\* An unused slot.
NoNet == [live |-> FALSE, target_vocabulary |-> <<>>,
          target_vocabulary_index |-> VocabularyIndex(<<>>), v_target |-> 0,
          store |-> 0, opt |-> NoOpt, optstate |-> NoOpt]

NoTens == [V_weight |-> <<>>, V_bias |-> <<>>, out_features |-> 0,
           decoder_ih |-> <<>>, input_size |-> 0]

\* The bias given to a token the old vocabulary does not hold.
NewTokenBias == -10

\* __init__: the vocabulary fields, no optimiser; the modules V and
\* decoder_cell are held in parameter store `s`.
NewNet(target_vocabulary, s) ==
    [live |-> TRUE,
     target_vocabulary       |-> target_vocabulary,
     target_vocabulary_index |-> VocabularyIndex(target_vocabulary),
     v_target                |-> Len(target_vocabulary),
     store |-> s, opt |-> NoOpt, optstate |-> NoOpt]

\* __init__: V = Linear(embedding_size, v_target+1) and the decoder cell with
\* input_size v_target+1.  A weight row, a bias entry and a weight_ih
\* column are each one tag; freshly initialised tags are non-zero and
\* pairwise different, 0 is the all-zero row or column.
NewTens(v_target) ==
    [V_weight     |-> [j \in 1..(v_target + 1) |-> j],
     V_bias       |-> [j \in 1..(v_target + 1) |-> j],
     out_features |-> v_target + 1,
     decoder_ih   |-> [j \in 1..(v_target + 1) |-> j],
     input_size   |-> v_target + 1]

\* The entry built for token i of the new vocabulary: the old entry of the
\* same token when the old vocabulary holds it, `fresh` otherwise.
TransferEntryNoRemap(old, vals, new, i, fresh) ==
    IF new[i] \in Range(old)
    THEN (IF i <= Len(vals) THEN vals[i] ELSE fresh)
    ELSE fresh

TransferEntry(old, vals, new, i, fresh) ==
    IF new[i] \in Range(old)
    THEN vals[ListIndex(old, new[i]) + 1]
    ELSE fresh

\* The list built by the loop and the append of the last (EOS) entry.
TransferList(old, vals, new, fresh) ==
    [i \in 1..(Len(new) + 1) |->
        IF i <= Len(new) THEN TransferEntry(old, vals, new, i, fresh)
        ELSE vals[Len(vals)]]

\* The resized tensors of V and decoder_cell.
TransferTens(old, T, new) ==
    [V_weight     |-> TransferList(old, T.V_weight, new, 0),
     V_bias       |-> TransferList(old, T.V_bias, new, NewTokenBias),
     out_features |-> Len(TransferList(old, T.V_bias, new, NewTokenBias)),
     decoder_ih   |-> TransferList(old, T.decoder_ih, new, 0),
     input_size   |-> Len(TransferList(old, T.decoder_ih, new, 0))]

\* _clear_optimiser: deletes 'opt' and 'optstate' when present.
ClearOptimiserKeepsState(net) == [net EXCEPT !.opt = NoOpt]

_clear_optimiser(net) == [net EXCEPT !.opt = NoOpt, !.optstate = NoOpt]

\* _get_optimiser: a new Adam over the current parameters, loaded with the
\* saved state when there is one.
_get_optimiser(net) ==
    [net EXCEPT !.opt = IF net.optstate.present
                        THEN net.optstate
                        ELSE OptOver(net.target_vocabulary, 0)]

\* __getstate__: the attributes without 'opt', and with the optimiser's
\* state_dict as 'optstate' when an optimiser is held.
__getstate__(net) ==
    IF net.opt.present
    THEN [net EXCEPT !.opt = NoOpt, !.optstate = net.opt]
    ELSE net

\* The parameter store of a copy made into slot n: copy.deepcopy copies the
\* modules and their tensors.
SharedStore(net, n) == net.store

CopyStore(net, n) == n

\* copy.deepcopy(self) (and a pickle round trip): __getstate__, a deep copy
\* of the state, __setstate__ on a new object.
DeepCopy(net, n) == [__getstate__(net) EXCEPT !.store = CopyStore(net, n)]

\* The lowest unused slot.
FreeSlot == Min({n \in NetIds : ~nets[n].live})

\* An optimiser step of Adam: every entry of the trained tensors changes.
AdamStep(T) ==
    [T EXCEPT !.V_weight   = [j \in DOMAIN T.V_weight |-> T.V_weight[j] + 100],
              !.V_bias     = [j \in DOMAIN T.V_bias |-> T.V_bias[j] + 100],
              !.decoder_ih = [j \in DOMAIN T.decoder_ih |-> T.decoder_ih[j] + 100]]

\* What the last operation was, on which object, what it returned (0: None
\* or a copy the caller did not keep), and the receiver and its tensors as
\* they were when it was called.
Last(what, recv, ret, arg) ==
    [op |-> what, recv |-> recv, ret |-> ret, arg |-> arg,
     pre |-> nets[recv], pretens |-> tens[nets[recv].store]]

XferIdle ==
    /\ nets = [n \in NetIds |-> NoNet]
    /\ tens = [n \in NetIds |-> NoTens]
    /\ ops = 0
    /\ last = [op |-> "idle", recv |-> 0, ret |-> 0, arg |-> <<>>,
               pre |-> NoNet, pretens |-> NoTens]

\* ------------------------------------------------ tensorising a batch
\* The run-relevant fields of a network constructed over the vocabularies.
NewRunNet(input_vocabularies, target_vocabulary) ==
    [n_encoders        |-> Len(input_vocabularies),
     input_vocabularies |-> input_vocabularies,
     input_vocabularies_index |->
         [i \in DOMAIN input_vocabularies |->
             VocabularyIndex(input_vocabularies[i])],
     v_inputs          |-> [i \in DOMAIN input_vocabularies |->
                               Len(input_vocabularies[i])],
     target_vocabulary |-> target_vocabulary,
     target_vocabulary_index |-> VocabularyIndex(target_vocabulary),
     v_target          |-> Len(target_vocabulary)]

\* An instance lacks example j or an example lacks the sequence of encoder i:
\* x[j][i] raises IndexError.  (inputsss[0] raises on an empty batch.)
MissingInput(net, inputsss) ==
    \/ Len(inputsss) = 0
    \/ \E x \in Range(inputsss) : Len(x) < Len(inputsss[1])
    \/ \E x \in Range(inputsss) : \E j \in 1..Len(inputsss[1]) :
          j <= Len(x) /\ Len(x[j]) < net.n_encoders

\* A token of a sequence that is read is not in its encoder's vocabulary.
UnknownInput(net, inputsss) ==
    \E x \in Range(inputsss) : \E j \in 1..Len(inputsss[1]) :
        \E i \in 1..net.n_encoders :
            \E tok \in Range(x[j][i]) :
                tok \notin DOMAIN net.input_vocabularies_index[i]

\* The tensor of one (encoder, example): the sequences x[j][i] of the batch,
\* one per column, in (maxlen+1) rows filled with the encoder's EOS id.
InputTensor(net, seqs, i) ==
    LET maxlen == Max({Len(seqs[k]) : k \in DOMAIN seqs})
    IN  [r \in 1..(maxlen + 1) |->
          [k \in DOMAIN seqs |->
            IF r <= Len(seqs[k])
            THEN net.input_vocabularies_index[i][seqs[k][r]]
            ELSE net.v_inputs[i]]]

\* _inputsToTensors: tensors[i][j] for every encoder i and every example j of
\* the first instance (len(inputsss[0]) examples).
_inputsToTensors(net, inputsss) ==
    IF MissingInput(net, inputsss) THEN [err |-> "IndexError", val |-> <<>>]
    ELSE IF UnknownInput(net, inputsss) THEN [err |-> "KeyError", val |-> <<>>]
    ELSE [err |-> "none",
          val |-> [i \in 1..net.n_encoders |->
                    [j \in 1..Len(inputsss[1]) |->
                      InputTensor(net,
                                  [k \in DOMAIN inputsss |-> inputsss[k][j][i]],
                                  i)]]]

\* ----------------------------------------------------------------- _run
\* The longest sampled sequence: max_length_target without a target.
SampleCap == 10

\* The values choose(logsoftmax, target[k, :]) takes: the log-probability of
\* the step's token.
LogProbs == {-2, -1}

\* The head of _run on what it is given as `inputs`: the tensors of
\* _inputsToTensors, or (sampleAndScore) the raw batch, whose first example
\* inputs[0][0] is a list without .size().  Without any example,
\* inputs[0][0] raises IndexError.
RunEntryError(net, arg) ==
    IF Len(arg.val) = 0 THEN "IndexError"
    ELSE IF Len(arg.val[1]) = 0 THEN "IndexError"
    ELSE IF arg.kind = "raw" THEN "AttributeError"
    ELSE "none"

\* max_length_target: the rows of the target, 10 without one.
MaxLengthTarget(m, tgt) == IF m = "score" THEN Len(tgt) ELSE SampleCap

\* self._ones(rows, cols).byte()
Ones(rows, cols) == [r \in 1..rows |-> [c \in 1..cols |-> TRUE]]

\* active[k, :] * (inputs[i][j][k, :] != self.v_inputs[i]), for one element.
ActiveNextLookahead(act, t, k, b, eos) ==
    IF k + 2 <= Len(t) THEN t[k + 2][b] # eos ELSE FALSE

ActiveNext(act, t, k, b, eos) == act[k + 1][b] /\ t[k + 1][b] # eos

\* active.sum(0).long() - 1, for one element.
EmbeddingIdxCount(act, b) == Cardinality({k \in DOMAIN act : act[k][b]})

EmbeddingIdx(act, b) == Cardinality({k \in DOMAIN act : act[k][b]}) - 1

\* active.float().log(): 0 where active, -inf where not.
AttentionMask(act) ==
    [k \in DOMAIN act |->
        [b \in DOMAIN act[k] |-> IF act[k][b] THEN "0" ELSE "-inf"]]

\* The decoder loop `for k in range(max_length_target)` is over.
DecoderDoneEarly(k, bound, act) ==
    k = bound \/ \A b \in DOMAIN act : ~act[b]

DecoderDone(k, bound, act) == k = bound

\* score + choose(logsoftmax, target[k, :]) * active.float(), for one element.
ScoreAddUnmasked(s, lp, act) == s + lp

ScoreAdd(s, lp, act) == s + lp * (IF act THEN 1 ELSE 0)

NoResult == [sequences |-> <<>>, scores |-> <<>>]

RunIdle ==
    /\ pc = "idle"
    /\ rnet = NewRunNet(<<>>, <<>>)
    /\ call = "none"
    /\ batch_inputs = <<>>
    /\ batch_target = <<>>
    /\ nRepeats = -1
    /\ err = "none"
    /\ inputs = [kind |-> "none", val |-> <<>>]
    /\ target = <<>>
    /\ mode = "none"
    /\ ei = 0 /\ ej = 0 /\ ek = 0
    /\ active = <<>>
    /\ masks = <<>>
    /\ embedding_idxs = <<>>
    /\ attention_mask = <<>>
    /\ dk = 0
    /\ dactive = <<>>
    /\ score = <<>>
    /\ logp = <<>>
    /\ rep = 0
    /\ result = NoResult

CodecIdle ==
    /\ cpc = "idle"
    /\ cnet = NewCodecNet(<<>>)
    /\ targets = <<>>
    /\ tensor = <<>>
    /\ out = <<>>

CodecInit ==
    /\ cpc = "start"
    /\ \E v \in Vocabularies(TargetTokens) : cnet = NewCodecNet(v)
    /\ targets \in TargetBatches(cnet)
    /\ tensor = <<>>
    /\ out = <<>>
    /\ XferIdle
    /\ RunIdle

\* _targetToTensor returns the tensor.
Encode ==
    /\ cpc = "start"
    /\ _targetToTensor(cnet, targets).err = "none"
    /\ tensor' = _targetToTensor(cnet, targets).val
    /\ cpc' = "encoded"
    /\ UNCHANGED <<cnet, targets, out>>
    /\ UNCHANGED xferVars
    /\ UNCHANGED runVars

\* _targetToTensor raises (max() of an empty batch).
EncodeRaises ==
    /\ cpc = "start"
    /\ _targetToTensor(cnet, targets).err # "none"
    /\ cpc' = "error"
    /\ UNCHANGED <<cnet, targets, tensor, out>>
    /\ UNCHANGED xferVars
    /\ UNCHANGED runVars

Decode ==
    /\ cpc = "encoded"
    /\ out' = _tensorToOutput(cnet, tensor)
    /\ cpc' = "decoded"
    /\ UNCHANGED <<cnet, targets, tensor>>
    /\ UNCHANGED xferVars
    /\ UNCHANGED runVars

CodecNext == Encode \/ EncodeRaises \/ Decode

SpecCodec == CodecInit /\ [][CodecNext]_vars

\* C1: for every duplicate-free target vocabulary and every batch of token
\* sequences over it (empty sequences and mixed lengths included), decoding
\* the encoded batch returns exactly the original sequences, column by
\* column; an empty sequence decodes to the empty sequence.
C1_RoundTrip ==
    cpc = "decoded" =>
        /\ Len(out) = Len(targets)
        /\ \A i \in DOMAIN targets : out[i] = targets[i]

\* A decoded batch that mixes an empty sequence with a longer one.
C1_Witness ==
    /\ cpc = "decoded"
    /\ \E i, j \in DOMAIN targets :
          /\ targets[i] = <<>>
          /\ Len(targets[j]) = MaxLen
          /\ out[i] = <<>>
          /\ out[j] = targets[j]

\* ------------------------------------------- specification: the networks
XferInit ==
    /\ \E v \in Vocabularies(TargetTokens) :
          /\ nets = [n \in NetIds |-> IF n = 1 THEN NewNet(v, 1) ELSE NoNet]
          /\ tens = [n \in NetIds |-> IF n = 1 THEN NewTens(Len(v)) ELSE NoTens]
    /\ ops = 0
    /\ last = [op |-> "init", recv |-> 1, ret |-> 0, arg |-> <<>>,
               pre |-> NoNet, pretens |-> NoTens]
    /\ CodecIdle
    /\ RunIdle

\* with_target_vocabulary(target_vocabulary) with the vocabulary the object
\* already has: returns None and changes nothing.
WithSameVocabulary(r) ==
    /\ nets[r].live
    /\ ops < MaxOps
    /\ ops' = ops + 1
    /\ last' = Last("transfer_same", r, 0, nets[r].target_vocabulary)
    /\ UNCHANGED <<nets, tens>>
    /\ UNCHANGED codecVars
    /\ UNCHANGED runVars

\* with_target_vocabulary(target_vocabulary) with another vocabulary: the
\* tensors of V and decoder_cell are rebuilt in place, the vocabulary fields
\* are set, the optimiser is cleared, the index is refreshed, and a deep copy
\* of the object is returned.  The caller keeps the copy (in the lowest
\* unused slot) while a slot is left, and lets go of it otherwise.
WithTargetVocabulary(r, target_vocabulary) ==
    /\ nets[r].live
    /\ ops < MaxOps
    /\ target_vocabulary # nets[r].target_vocabulary
    /\ LET self == nets[r]
           T    == TransferTens(self.target_vocabulary, tens[self.store],
                                target_vocabulary)
           new  == _clear_optimiser(
                     [self EXCEPT
                        !.target_vocabulary = target_vocabulary,
                        !.v_target = Len(target_vocabulary),
                        !.target_vocabulary_index =
                            VocabularyIndex(target_vocabulary)])
           tens1 == [tens EXCEPT ![self.store] = T]
       IN  IF \E n \in NetIds : ~nets[n].live
           THEN LET n  == FreeSlot
                    cp == DeepCopy(new, n)
                IN  /\ nets' = [nets EXCEPT ![r] = new, ![n] = cp]
                    /\ tens' = [tens1 EXCEPT ![cp.store] = tens1[new.store]]
                    /\ last' = Last("transfer", r, n, target_vocabulary)
           ELSE /\ nets' = [nets EXCEPT ![r] = new]
                /\ tens' = tens1
                /\ last' = Last("transfer", r, 0, target_vocabulary)
    /\ ops' = ops + 1
    /\ UNCHANGED codecVars
    /\ UNCHANGED runVars

\* optimiser_step: the optimiser is created when the object holds none, then
\* one step of it changes the parameters.
OptimiserStep(r) ==
    /\ nets[r].live
    /\ ops < MaxOps
    /\ LET self == IF nets[r].opt.present THEN nets[r]
                   ELSE _get_optimiser(nets[r])
       IN  /\ nets' = [nets EXCEPT ![r] = [self EXCEPT !.opt.t = @ + 1]]
           /\ tens' = [tens EXCEPT ![self.store] = AdamStep(@)]
    /\ ops' = ops + 1
    /\ last' = Last("step", r, 0, <<>>)
    /\ UNCHANGED codecVars
    /\ UNCHANGED runVars

\* copy.deepcopy(net) or pickle.loads(pickle.dumps(net)) by a caller.
Copy(r) ==
    /\ nets[r].live
    /\ ops < MaxOps
    /\ \E n \in NetIds : ~nets[n].live
    /\ LET n  == FreeSlot
           cp == DeepCopy(nets[r], n)
       IN  /\ nets' = [nets EXCEPT ![n] = cp]
           /\ tens' = [tens EXCEPT ![cp.store] = tens[nets[r].store]]
           /\ last' = Last("copy", r, n, <<>>)
    /\ ops' = ops + 1
    /\ UNCHANGED codecVars
    /\ UNCHANGED runVars

XferNext ==
    \E r \in NetIds :
        \/ WithSameVocabulary(r)
        \/ \E v \in Vocabularies(TargetTokens) : WithTargetVocabulary(r, v)
        \/ OptimiserStep(r)
        \/ Copy(r)

SpecTransfer == XferInit /\ [][XferNext]_vars

\* The receiver of the last operation as it was when the operation was called,
\* and its tensors then.
PreNet == last.pre

PreTens == last.pretens

\* The objects the last call left behind: the receiver and, when kept, the
\* returned copy.
Results == {last.recv} \cup (IF last.ret = 0 THEN {} ELSE {last.ret})

\* C2: after with_target_vocabulary with a different vocabulary, in the
\* receiver and in the returned network, entry i of V.weight (a row), V.bias
\* and decoder_cell.weight_ih (a column) is the pre-transfer entry j when
\* token i of the new vocabulary was token j of the old one, and is the zero
\* row / the bias -10 / the zero column when the old vocabulary did not hold
\* the token; the last (EOS) entry is the pre-transfer last entry.
C2_TransferPreserves ==
    last.op = "transfer" =>
        \A m \in Results :
            LET old == PreNet.target_vocabulary
                new == last.arg
                P   == PreTens
                T   == tens[nets[m].store]
            IN  /\ Len(T.V_weight) = Len(new) + 1
                /\ Len(T.V_bias) = Len(new) + 1
                /\ Len(T.decoder_ih) = Len(new) + 1
                /\ \A i \in 1..Len(new) :
                      /\ \A j \in DOMAIN old :
                            old[j] = new[i] =>
                                /\ T.V_weight[i] = P.V_weight[j]
                                /\ T.V_bias[i] = P.V_bias[j]
                                /\ T.decoder_ih[i] = P.decoder_ih[j]
                      /\ new[i] \notin Range(old) =>
                                /\ T.V_weight[i] = 0
                                /\ T.V_bias[i] = -10
                                /\ T.decoder_ih[i] = 0
                /\ T.V_weight[Len(new) + 1] = P.V_weight[Len(old) + 1]
                /\ T.V_bias[Len(new) + 1] = P.V_bias[Len(old) + 1]
                /\ T.decoder_ih[Len(new) + 1] = P.decoder_ih[Len(old) + 1]

\* A transfer of a trained network that moves a kept token to another index
\* and adds a token the old vocabulary did not hold.
C2_Witness ==
    /\ last.op = "transfer"
    /\ PreNet.opt.present
    /\ \E i \in DOMAIN last.arg : \E j \in DOMAIN PreNet.target_vocabulary :
          i # j /\ last.arg[i] = PreNet.target_vocabulary[j]
    /\ \E i \in DOMAIN last.arg : last.arg[i] \notin Range(PreNet.target_vocabulary)

\* The vocabulary fields, the index and the sizes of V and decoder_cell of
\* network m agree with one another.
Consistent(m) ==
    LET net == nets[m]
        T   == tens[net.store]
    IN  /\ net.v_target = Len(net.target_vocabulary)
        /\ net.target_vocabulary_index = VocabularyIndex(net.target_vocabulary)
        /\ Len(T.V_weight) = net.v_target + 1
        /\ Len(T.V_bias) = net.v_target + 1
        /\ T.out_features = net.v_target + 1
        /\ Len(T.decoder_ih) = net.v_target + 1
        /\ T.input_size = net.v_target + 1

\* C6: with_target_vocabulary with a different vocabulary returns another
\* object than the receiver, holding the new vocabulary as the receiver does;
\* no two objects share parameter tensors, an operation on one object leaves
\* every other object and its tensors as they were, and in every object the
\* vocabulary, v_target, the index and the sizes of V and decoder_cell agree.
C6_State ==
    /\ \A m \in NetIds : nets[m].live => Consistent(m)
    /\ \A m, n \in NetIds :
          (m # n /\ nets[m].live /\ nets[n].live) => nets[m].store # nets[n].store
    /\ last.op = "transfer" =>
          /\ last.ret # last.recv
          /\ \A m \in Results :
                /\ nets[m].live
                /\ nets[m].target_vocabulary = last.arg
                /\ tens[nets[m].store] = tens[nets[last.recv].store]

\* A step changes no object but the receiver of the call and the copy the
\* call returns: every other object, and what its tensors hold, stay as they
\* were.
C6_Step ==
    \A m \in NetIds :
        (nets[m].live /\ m # last'.recv) =>
            /\ nets'[m] = nets[m]
            /\ tens'[nets'[m].store] = tens[nets[m].store]

C6_IndependentCopy == C6_State /\ [][C6_State' /\ C6_Step]_vars

\* An optimiser step on the receiver of an earlier transfer, while the
\* returned copy is alive and keeps the tensors it was returned with.
C6_Witness ==
    /\ last.op = "step"
    /\ \E m \in NetIds :
          /\ m # last.recv
          /\ nets[m].live
          /\ nets[m].target_vocabulary = nets[last.recv].target_vocabulary
          /\ nets[m].target_vocabulary # <<>>
          /\ tens[nets[m].store] # tens[nets[last.recv].store]
          /\ tens[nets[m].store] = last.pretens
          /\ 0 \in Range(tens[nets[m].store].V_weight)

\* C9: right after with_target_vocabulary with a different vocabulary neither
\* the receiver nor the returned network holds 'opt' or 'optstate'; an
\* optimiser or saved optimiser state held by a network is always one over
\* the network's current vocabulary, so an optimiser step after a transfer
\* starts a fresh optimiser; a call with the identical vocabulary changes
\* nothing.
C9_OptimiserInvalidated ==
    /\ last.op = "transfer" =>
          \A m \in Results :
              ~nets[m].opt.present /\ ~nets[m].optstate.present
    /\ \A m \in NetIds :
          nets[m].live =>
              /\ nets[m].opt.present =>
                     nets[m].opt.over = nets[m].target_vocabulary
              /\ nets[m].optstate.present =>
                     nets[m].optstate.over = nets[m].target_vocabulary
    /\ (last.op = "step" /\ ~PreNet.opt.present /\ ~PreNet.optstate.present) =>
          nets[last.recv].opt = OptOver(nets[last.recv].target_vocabulary, 1)
    /\ last.op = "transfer_same" =>
          /\ last.ret = 0
          /\ nets[last.recv] = last.pre
          /\ tens[nets[last.recv].store] = last.pretens

\* A transfer of a network that held both an optimiser and a saved optimiser
\* state (a stepped copy of a stepped network).
C9_Witness ==
    /\ last.op = "transfer"
    /\ PreNet.opt.present
    /\ PreNet.optstate.present
    /\ ~nets[last.recv].opt.present
    /\ ~nets[last.recv].optstate.present

\* ------------------------------- specification: score, sample, sampleAndScore
\* The networks the calls are made on: one encoder, two encoders (as the
\* network of __main__), and one encoder over two tokens; one target token.
Net1 == NewRunNet(<< <<"A">> >>, <<"a">>)

Net2 == NewRunNet(<< <<"A">>, <<"B">> >>, <<"a">>)

Net3 == NewRunNet(<< <<"A", "B">> >>, <<"a">>)

\* The instances of m examples for a network: per example one sequence per
\* encoder, over the encoder's vocabulary.
Examples(net) ==
    {e \in [1..net.n_encoders -> SeqsUpTo({"A", "B"}, MaxLen)] :
        \A i \in 1..net.n_encoders :
            Range(e[i]) \subseteq Range(net.input_vocabularies[i])}

Instances(net, m) == [1..m -> Examples(net)]

\* A call as the initial state draws it.
Call(net, c, bi, bt, n) ==
    [net |-> net, call |-> c, batch_inputs |-> bi, batch_target |-> bt,
     nRepeats |-> n]

\* Scoring calls that vary the input sequences: two encoders with one example
\* per instance and up to MaxBatch instances, or one encoder with two examples
\* in a single instance; every target is the empty sequence.
EncoderCalls ==
    {Call(Net2, "score", bi, [b \in DOMAIN bi |-> <<>>], -1) :
        bi \in Seqs1UpTo(Instances(Net2, 1), MaxBatch)}
    \cup
    {Call(Net1, "score", <<x>>, << <<>> >>, -1) : x \in Instances(Net1, 2)}

\* Scoring calls that vary the targets: the first instance's input is two
\* tokens long, the others' is empty.
ScoreCalls ==
    {Call(Net3, "score",
          [b \in DOMAIN bt |->
              IF b = 1 THEN << << <<"B", "A">> >> >> ELSE << << <<>> >> >>],
          bt, -1) :
        bt \in Seqs1UpTo(SeqsUpTo({"a"}, MaxLen), MaxBatch)}

\* A sampling call on one instance (the sampled tensor has SampleCap rows).
SampleCalls ==
    {Call(Net3, "sample", << << << <<"B", "A">> >> >> >>, <<>>, -1)}

\* Scoring calls on two instances of one or two examples, each example with
\* no, one or two sequences, for the network of one encoder: the shapes agree
\* in some and disagree in others.
ShapedExamples == {<<>>, << <<"A">> >>, << <<"A">>, <<"A">> >>}

ShapedInstances == [1..1 -> ShapedExamples] \cup [1..2 -> ShapedExamples]

ShapedCalls ==
    {Call(Net1, "score", <<x, y>>, << <<>>, <<>> >>, -1) :
        x \in ShapedInstances, y \in ShapedInstances}

\* sampleAndScore calls on one or two well-formed instances, without
\* nRepeats (-1: None) and with nRepeats 0, 1, 2.
SampleAndScoreCalls ==
    {Call(Net1, "sampleAndScore", bi, <<>>, n) :
        bi \in Seqs1UpTo(Instances(Net1, 1), 2), n \in -1..2}

Calls == EncoderCalls \cup ScoreCalls \cup SampleCalls \cup ShapedCalls
         \cup SampleAndScoreCalls

RunInit ==
    /\ pc = "call"
    /\ \E c \in Calls :
          /\ rnet = c.net
          /\ call = c.call
          /\ batch_inputs = c.batch_inputs
          /\ batch_target = c.batch_target
          /\ nRepeats = c.nRepeats
    /\ err = "none"
    /\ inputs = [kind |-> "none", val |-> <<>>]
    /\ target = <<>>
    /\ mode = "none"
    /\ ei = 0 /\ ej = 0 /\ ek = 0
    /\ active = <<>>
    /\ masks = <<>>
    /\ embedding_idxs = <<>>
    /\ attention_mask = <<>>
    /\ dk = 0
    /\ dactive = <<>>
    /\ score = <<>>
    /\ logp = <<>>
    /\ rep = 0
    /\ result = NoResult
    /\ CodecIdle
    /\ XferIdle

\* The call raises: nothing is returned.
Raise(e) ==
    /\ pc' = "error"
    /\ err' = e
    /\ UNCHANGED <<inputs, target, mode, rep, result>>
    /\ UNCHANGED encVars
    /\ UNCHANGED decVars

\* The head of score, sample and sampleAndScore: _inputsToTensors, and for
\* score _targetToTensor; then _run is called, by sampleAndScore with the raw
\* batch (and not at all when nRepeats is 0).
Tensorize ==
    /\ pc = "call"
    /\ LET r == _inputsToTensors(rnet, batch_inputs)
           t == IF call = "score" THEN _targetToTensor(rnet, batch_target)
                ELSE [err |-> "none", val |-> <<>>]
       IN  IF r.err # "none" THEN Raise(r.err)
           ELSE IF t.err # "none" THEN Raise(t.err)
           ELSE IF call = "sampleAndScore" /\ nRepeats = 0
           THEN /\ pc' = "done"
                /\ result' = NoResult
                /\ UNCHANGED <<err, inputs, target, mode, rep>>
                /\ UNCHANGED encVars
                /\ UNCHANGED decVars
           ELSE /\ pc' = "run"
                /\ inputs' = IF call = "sampleAndScore"
                             THEN [kind |-> "raw", val |-> batch_inputs]
                             ELSE [kind |-> "tensors", val |-> r.val]
                /\ target' = t.val
                /\ mode' = IF call = "score" THEN "score" ELSE "sample"
                /\ UNCHANGED <<err, rep, result>>
                /\ UNCHANGED encVars
                /\ UNCHANGED decVars
    /\ UNCHANGED callVars
    /\ UNCHANGED codecVars
    /\ UNCHANGED xferVars

\* _run up to the first encoder loop: the sizes, the zero score, the active
\* mask of encoder 0 on example 0.
RunEnter ==
    /\ pc = "run"
    /\ IF RunEntryError(rnet, inputs) # "none"
       THEN Raise(RunEntryError(rnet, inputs))
       ELSE LET batch_size == NCols(inputs.val[1][1])
            IN  /\ pc' = "enc"
                /\ score' = [b \in 1..batch_size |-> 0]
                /\ ei' = 0 /\ ej' = 0 /\ ek' = 0
                /\ active' = Ones(Len(inputs.val[1][1]), batch_size)
                /\ masks' = <<>>
                /\ embedding_idxs' = <<>>
                /\ attention_mask' = <<>>
                /\ UNCHANGED <<err, inputs, target, mode, rep, result>>
                /\ UNCHANGED <<dk, dactive, logp>>
    /\ UNCHANGED callVars
    /\ UNCHANGED codecVars
    /\ UNCHANGED xferVars

\* One iteration k of the loop of encoder ei over example ej: the cell is
\* stepped and, when there is a next position, its active flags are set.
EncoderStep ==
    /\ pc = "enc"
    /\ LET t == inputs.val[ei + 1][ej + 1]
       IN  /\ ek < Len(t)
           /\ active' =
                IF ek + 1 < Len(t)
                THEN [active EXCEPT ![ek + 2] =
                        [b \in DOMAIN active[ek + 2] |->
                            ActiveNext(active, t, ek, b, rnet.v_inputs[ei + 1])]]
                ELSE active
    /\ ek' = ek + 1
    /\ UNCHANGED <<pc, err, inputs, target, mode, rep, result>>
    /\ UNCHANGED <<ei, ej, masks, embedding_idxs, attention_mask>>
    /\ UNCHANGED decVars
    /\ UNCHANGED callVars
    /\ UNCHANGED codecVars
    /\ UNCHANGED xferVars

\* list.append on the list of encoder i (created when its first example is
\* done).
AppendAt(lists, i, j, x) ==
    IF j = 0 THEN Append(lists, <<x>>)
    ELSE [lists EXCEPT ![i + 1] = Append(@, x)]

\* After the loop over k: the embedding index and the attention mask of
\* (ei, ej) are kept; then the next example, the next encoder, or the start of
\* the decoder (a zero target when sampling, every element active).
EncoderFinish ==
    /\ pc = "enc"
    /\ ek = Len(inputs.val[ei + 1][ej + 1])
    /\ LET n_examples == Len(inputs.val[1])
           batch_size == NCols(inputs.val[1][1])
       IN  /\ masks' = AppendAt(masks, ei, ej, active)
           /\ embedding_idxs' =
                AppendAt(embedding_idxs, ei, ej,
                         [b \in 1..batch_size |-> EmbeddingIdx(active, b)])
           /\ attention_mask' =
                AppendAt(attention_mask, ei, ej, AttentionMask(active))
           /\ ek' = 0
           /\ IF ej + 1 < n_examples
              THEN /\ ei' = ei /\ ej' = ej + 1
                   /\ active' = Ones(Len(inputs.val[ei + 1][ej + 2]), batch_size)
                   /\ UNCHANGED <<pc, target, dk, dactive>>
              ELSE IF ei + 1 < rnet.n_encoders
              THEN /\ ei' = ei + 1 /\ ej' = 0
                   /\ active' = Ones(Len(inputs.val[ei + 2][1]), batch_size)
                   /\ UNCHANGED <<pc, target, dk, dactive>>
              ELSE /\ pc' = "dec"
                   /\ target' = IF mode = "score" THEN target
                                ELSE [k \in 1..MaxLengthTarget(mode, target) |->
                                        [b \in 1..batch_size |-> 0]]
                   /\ dactive' = [b \in 1..batch_size |-> TRUE]
                   /\ dk' = 0
                   /\ UNCHANGED <<ei, ej, active>>
    /\ UNCHANGED <<err, inputs, mode, rep, result, score, logp>>
    /\ UNCHANGED callVars
    /\ UNCHANGED codecVars
    /\ UNCHANGED xferVars

\* One iteration k of the decoder loop: the token of every element is the
\* target's (score) or is drawn from the softmax over v_target+1 ids
\* (sample); its log-probability is added to the score under the active
\* flag; then the flag is cleared where the token is the EOS id.
DecoderStep ==
    /\ pc = "dec"
    /\ ~DecoderDone(dk, MaxLengthTarget(mode, target), dactive)
    /\ \E toks \in [DOMAIN dactive -> 0..rnet.v_target] :
       \E lps \in [DOMAIN dactive -> LogProbs] :
          /\ mode = "score" => toks = target[dk + 1]
          /\ target' = [target EXCEPT ![dk + 1] = toks]
          /\ logp' = lps
          /\ score' = [b \in DOMAIN score |->
                          ScoreAdd(score[b], lps[b], dactive[b])]
          /\ dactive' = [b \in DOMAIN dactive |->
                            dactive[b] /\ toks[b] # rnet.v_target]
    /\ dk' = dk + 1
    /\ UNCHANGED <<pc, err, inputs, mode, rep, result>>
    /\ UNCHANGED encVars
    /\ UNCHANGED callVars
    /\ UNCHANGED codecVars
    /\ UNCHANGED xferVars

\* _run returns (target, score) and the caller builds its result: score the
\* scores, sample the decoded target, sampleAndScore both, once or appended
\* nRepeats times.
RunReturn ==
    /\ pc = "dec"
    /\ DecoderDone(dk, MaxLengthTarget(mode, target), dactive)
    /\ IF call = "score"
       THEN /\ result' = [sequences |-> <<>>, scores |-> score]
            /\ pc' = "done"
            /\ UNCHANGED rep
       ELSE IF call = "sample"
       THEN /\ result' = [sequences |-> _tensorToOutput(rnet, target),
                          scores |-> <<>>]
            /\ pc' = "done"
            /\ UNCHANGED rep
       ELSE /\ result' = [sequences |-> result.sequences
                                          \o _tensorToOutput(rnet, target),
                          scores |-> result.scores \o score]
            /\ rep' = rep + 1
            /\ pc' = IF nRepeats = -1 \/ rep + 1 >= nRepeats
                     THEN "done" ELSE "run"
    /\ UNCHANGED <<err, inputs, target, mode>>
    /\ UNCHANGED encVars
    /\ UNCHANGED decVars
    /\ UNCHANGED callVars
    /\ UNCHANGED codecVars
    /\ UNCHANGED xferVars

Next == Tensorize \/ RunEnter \/ EncoderStep \/ EncoderFinish \/ DecoderStep
        \/ RunReturn

Spec == RunInit /\ [][Next]_vars

\* The rows of the target the decoder loop has consumed hold the EOS id for
\* element b.
EosConsumed(b) == \E k \in 1..dk : target[k][b] = rnet.v_target

\* C3: in score mode a decoder step adds the log-probability of the step's
\* token to an element's score exactly when the element's flag is still
\* true; the flag is true up to and in the step that consumes the element's
\* first EOS id and is cleared by that step after its addition; once that
\* step is done no later step changes the element's score, whatever the rest
\* of its target holds.
C3_Step ==
    (pc = "dec" /\ mode = "score" /\ dk' = dk + 1) =>
        \A b \in DOMAIN score :
            /\ EosConsumed(b) => score'[b] = score[b]
            /\ dactive[b] <=> ~EosConsumed(b)
            /\ score'[b] = IF dactive[b] THEN score[b] + logp'[b] ELSE score[b]
            /\ dactive'[b] <=> (dactive[b] /\ target[dk + 1][b] # rnet.v_target)

C3_MaskedScore == [][C3_Step]_vars

\* A scoring run two steps past the EOS of one element, whose score is what
\* its EOS step left, while another element went on adding to its score.
C3_Witness ==
    /\ pc = "dec"
    /\ mode = "score"
    /\ dk >= 3
    /\ \E b, c \in DOMAIN score :
          /\ target[1][b] = rnet.v_target
          /\ ~dactive[b]
          /\ score[b] = -2
          /\ target[2][c] # rnet.v_target
          /\ score[c] < -2

\* The active flags of mask m over tensor t in rows 1..upto: a row after the
\* first is active exactly when the row before is active and read a token
\* other than the EOS id, and no row is active after an inactive one.
MaskChained(m, t, eos, upto) ==
    \A b \in DOMAIN m[1] :
        /\ \A k \in 1..(upto - 1) :
              m[k + 1][b] <=> (m[k][b] /\ t[k][b] # eos)
        /\ \A k, l \in 1..upto : (k < l /\ ~m[k][b]) => ~m[l][b]

C4_Encoder ==
    /\ \A i \in DOMAIN masks : \A j \in DOMAIN masks[i] :
          MaskChained(masks[i][j], inputs.val[i][j], rnet.v_inputs[i],
                      Len(masks[i][j]))
    /\ pc = "enc" =>
          MaskChained(active, inputs.val[ei + 1][ej + 1], rnet.v_inputs[ei + 1],
                      Min({ek + 1, Len(active)}))

C4_DecoderStep ==
    (pc = "dec" /\ dk' = dk + 1) =>
        \A b \in DOMAIN dactive : ~dactive[b] => ~dactive'[b]

\* C4: in every encoder mask (encoder, example, batch element) and in the
\* decoder's flag of every batch element, a flag that is false at a timestep
\* is false at every later one; in the encoder, position k+1 is active
\* exactly when position k is active and the token read at k is not the
\* encoder's EOS id.
C4_ActiveMonotone == C4_Encoder /\ [][C4_Encoder' /\ C4_DecoderStep]_vars

\* A decoder two steps on with an element switched off in the first step,
\* after an encoder mask with two inactive rows.
C4_Witness ==
    /\ pc = "dec"
    /\ dk >= 2
    /\ \E b \in DOMAIN dactive : target[1][b] = rnet.v_target /\ ~dactive[b]
    /\ \E i \in DOMAIN masks : \E j \in DOMAIN masks[i] :
       \E b \in DOMAIN masks[i][j][1] :
          /\ Len(masks[i][j]) >= 3
          /\ masks[i][j][1][b]
          /\ ~masks[i][j][2][b]
          /\ ~masks[i][j][3][b]

\* The 0-based position of the first EOS id in column b of tensor t.
FirstEos(t, b, eos) == ListIndex(Column(t, b), eos)

\* The claim as the specification words it: the mask of an encoded column is
\* true before the position of the first EOS id and false from it on, the
\* attention bias is 0 only where a real token is, and the embedding index
\* is the position of the last real token.
C5_MaskStopsBeforeEos ==
    \A i \in DOMAIN masks : \A j \in DOMAIN masks[i] :
    \A b \in DOMAIN masks[i][j][1] :
        LET t == inputs.val[i][j]
            p == FirstEos(t, b, rnet.v_inputs[i])
        IN  /\ \A k \in DOMAIN t : masks[i][j][k][b] <=> (k - 1 < p)
            /\ \A k \in DOMAIN t :
                  attention_mask[i][j][k][b] = "0" <=> t[k][b] # rnet.v_inputs[i]
            /\ p > 0 => embedding_idxs[i][j][b] = p - 1

\* C5 (amended): the mask of an encoded column is true at the positions up to
\* and including the position of the first EOS id and false at every later
\* position; the attention bias is 0 at exactly those positions (the real
\* tokens and the first EOS), -inf after; the embedding index (active count
\* minus one) is the position of the first EOS id.
C5_MaskThroughFirstEos ==
    \A i \in DOMAIN masks : \A j \in DOMAIN masks[i] :
    \A b \in DOMAIN masks[i][j][1] :
        LET t == inputs.val[i][j]
            p == FirstEos(t, b, rnet.v_inputs[i])
        IN  /\ Len(masks[i][j]) = Len(t)
            /\ \A k \in DOMAIN t : masks[i][j][k][b] <=> (k - 1 <= p)
            /\ \A k \in DOMAIN t :
                  attention_mask[i][j][k][b] = (IF k - 1 <= p THEN "0" ELSE "-inf")
            /\ embedding_idxs[i][j][b] = p

\* The mask of a one-token sequence padded to three rows: the token and the
\* first EOS are active, the second EOS is not.
C5_Witness ==
    \E i \in DOMAIN masks : \E j \in DOMAIN masks[i] :
    \E b \in DOMAIN masks[i][j][1] :
        /\ Len(masks[i][j]) = 3
        /\ FirstEos(inputs.val[i][j], b, rnet.v_inputs[i]) = 1
        /\ masks[i][j][2][b]
        /\ ~masks[i][j][3][b]
        /\ embedding_idxs[i][j][b] = 1
        /\ attention_mask[i][j][2][b] = "0"

\* Some instance has another number of examples than the first, or some
\* example has not one sequence per encoder.
Misshapen(net, inputsss) ==
    \E x \in Range(inputsss) :
        \/ Len(x) # Len(inputsss[1])
        \/ \E e \in Range(x) : Len(e) # net.n_encoders

\* C7: sampleAndScore on well-formed instances does not raise, hands _run
\* the tensors sample hands it, and returns one sequence and one score per
\* instance, nRepeats times over when nRepeats is given.
C7_SampleAndScore ==
    (call = "sampleAndScore" /\ ~Misshapen(rnet, batch_inputs)) =>
        /\ pc # "error"
        /\ pc \in {"run", "enc", "dec"} => inputs.kind = "tensors"
        /\ pc = "done" =>
              LET r == IF nRepeats = -1 THEN 1 ELSE nRepeats
              IN  /\ Len(result.sequences) = r * Len(batch_inputs)
                  /\ Len(result.scores) = r * Len(batch_inputs)

\* C8: a call whose instances disagree in their number of examples, or with
\* an example that has not one sequence per encoder, raises: it does not go
\* on with some example or sequence left out.
C8_FailsFast ==
    (Misshapen(rnet, batch_inputs) /\ pc # "call") => pc = "error"

\* The bound of the decoder loop of the call.
LoopBound ==
    IF call = "score"
    THEN Max({Len(batch_target[b]) : b \in DOMAIN batch_target}) + 1
    ELSE 10

\* C10: the decoder loop is stepped while its step count is below its bound,
\* also when no element is active any more, and is left only at the bound:
\* the rows of the encoded target (longest target + 1) when scoring, 10 when
\* sampling.  A sampled sequence has at most 10 tokens, all of the target
\* vocabulary, and is its column cut at the first EOS id (the whole column
\* without one).
C10_FixedBound ==
    /\ pc = "dec" => dk <= LoopBound
    /\ (pc = "dec" /\ dk < LoopBound) => ENABLED DecoderStep
    /\ (pc = "done" /\ call = "score") =>
          /\ dk = LoopBound
          /\ Len(result.scores) = Len(batch_inputs)
    /\ (pc = "done" /\ call = "sample") =>
          /\ dk = LoopBound
          /\ Len(target) = 10
          /\ Len(result.sequences) = Len(batch_inputs)
          /\ \A b \in DOMAIN result.sequences :
                LET col == Column(target, b)
                    seq == result.sequences[b]
                    n   == IF rnet.v_target \in Range(col)
                           THEN ListIndex(col, rnet.v_target) ELSE Len(col)
                IN  /\ Len(seq) = n
                    /\ n <= 10
                    /\ \A k \in 1..n :
                          /\ seq[k] \in Range(rnet.target_vocabulary)
                          /\ seq[k] = rnet.target_vocabulary[col[k] + 1]

\* A sample whose first drawn id was the EOS id: the loop went on to its
\* tenth step, drew tokens after the EOS, and the sequence returned is empty.
C10_Witness ==
    /\ pc = "done"
    /\ call = "sample"
    /\ dk = 10
    /\ target[1][1] = rnet.v_target
    /\ target[10][1] # rnet.v_target
    /\ result.sequences[1] = <<>>
====
